---- MODULE Spec2Model ----
(***************************************************************************)
(* A model of abb_robot_client: the RWS 2.0 client (rws2.py, class RWS2)   *)
(* talking over HTTP to a robot controller, and the in-memory client       *)
(* RWSMock (rws_mock.py).                                                  *)
(*                                                                         *)
(* The client is sequential: one call at a time, each HTTP exchange of a   *)
(* call is one step.  The controller is the environment: it answers each   *)
(* request with a status the protocol allows in its state, the transport   *)
(* either delivers that answer or raises, and other clients may take and   *)
(* give back mastership between any two steps.                             *)
(***************************************************************************)
EXTENDS Integers, Sequences, FiniteSets, TLC

VARIABLES
    holder,        \* controller: who holds mastership: "none", "self", "other"
    rapid,         \* controller: RAPID symbol data, path -> value string
    active,        \* controller: task name -> BOOLEAN (task is active)
    ctrlexecstate, \* controller: RAPID execution state
    signals,       \* controller: signal name -> lvalue string
    pc,            \* client: position inside the call in progress, or "idle"
    call,          \* client: the call in progress, or the last one completed
    result,        \* client: how the last completed call ended
    last,          \* client: the last HTTP exchange and what the wrapper made of it
    sent,          \* client: the requests issued by the call (in order)
    plan,          \* client: start(): the task POSTs still to issue
    m_dio,         \* RWSMock._dio
    m_ret,         \* RWSMock: the last call on the mock and its outcome
    files,         \* controller: file path -> contents, or Absent
    speedratio,    \* controller: the speed ratio of the panel
    ctrlstate,     \* controller: the controller state of the panel
    m_files,       \* RWSMock._files
    m_speedratio,  \* RWSMock._speedratio
    m_controller_state,  \* RWSMock._controller_state
    m_rapid,       \* RWSMock._rapid
    m_exec_state,  \* RWSMock._exec_state
    m_tasks,       \* RWSMock._tasks: task name -> BOOLEAN (task is active)
    threads        \* threads sharing one RWS2 client: what each one is doing

vars == <<holder, rapid, active, ctrlexecstate, signals, pc, call, result,
          last, sent, plan, m_dio, m_ret, files, speedratio, ctrlstate,
          m_files, m_speedratio, m_controller_state, m_rapid, m_exec_state,
          m_tasks, threads>>

ctlvars == <<holder, rapid, active, ctrlexecstate, signals>>
mockvars == <<m_dio, m_ret>>
panelvars == <<speedratio, ctrlstate>>
mockstate == <<m_files, m_speedratio, m_controller_state, m_rapid>>
auxvars == <<m_exec_state, m_tasks, threads>>
xvars == <<files, panelvars, mockstate, auxvars>>

(***************************************************************************)
(* Bounds                                                                  *)
(***************************************************************************)
MaxRob == 2      \* the controller has motion tasks T_ROB1 .. T_ROB<MaxRob>
MaxNum == 1      \* numbers written to RAPID variables: 0 .. MaxNum, and TestNum
MaxArgs == 2     \* an event-log entry declares and carries 0 .. MaxArgs arguments
MaxLog == 2      \* an event-log response lists 0 .. MaxLog entries
MaxThreads == 2  \* the threads that share one RWS2 client: 1 .. MaxThreads

(***************************************************************************)
(* Python values, as far as the client handles them.                       *)
(***************************************************************************)
PyNone == [ty |-> "None", s |-> "", n |-> 0]
PyStr(x) == [ty |-> "str", s |-> x, n |-> 0]
PyInt(i) == [ty |-> "int", s |-> "", n |-> i]
PyFloat(i) == [ty |-> "float", s |-> "", n |-> i]   \* the float i.0
PyBool(b) == [ty |-> "bool", s |-> "", n |-> IF b THEN 1 ELSE 0]
PyBytes(x) == [ty |-> "bytes", s |-> x, n |-> 0]
PyList(items) == [ty |-> "list", s |-> "", n |-> Len(items), items |-> items]

\* str(v), also what an f-string and requests' form encoding make of v
py_str(v) ==
    CASE v.ty = "str" -> v.s
      [] v.ty = "int" -> ToString(v.n)
      [] v.ty = "float" -> ToString(v.n) \o ".0"
      [] v.ty = "bool" -> (IF v.n = 1 THEN "True" ELSE "False")
      [] v.ty = "None" -> "None"

\* bool(v)
py_bool(v) ==
    CASE v.ty = "str" -> v.s # ""
      [] v.ty = "None" -> FALSE
      [] OTHER -> v.n # 0

Ret(v) == [kind |-> "return", exc |-> "", value |-> v]
Raise(e) == [kind |-> "raise", exc |-> e, value |-> PyNone]
NoResult == [kind |-> "", exc |-> "", value |-> PyNone]

(***************************************************************************)
(* HTTP: what the controller answers and what the transport does with it.  *)
(***************************************************************************)
OK200 == [status |-> 200, content |-> "json"]
NoContent204 == [status |-> 204, content |-> "empty"]
Forbidden403 == [status |-> 403, content |-> "json"]
NotFound404 == [status |-> 404, content |-> "json"]
Fail500 == [status |-> 500, content |-> "json"]

\* "resp": the answer arrives; "noreach": connection/DNS failure or timeout,
\* the request never reaches the controller and the session call raises.
Transports == {"resp", "noreach"}

\* the controller carries a request out exactly when it answers 2xx
Applied(t, r) == t = "resp" /\ r.status < 300

\* RWS2._do_get reaches its except branch and prints "Error occurred": the
\* session raised, raise_for_status() raised, or response.json() raised on a
\* body that is not JSON (JSONDecodeError is a RequestException)
_do_get_prints(t, r) == t # "resp" \/ r.status >= 400 \/ r.content # "json"

\* RWS2._do_post prints "Error occurred": a non-2xx answer other than 403
_do_post_prints(t, r) == t = "resp" /\ r.status >= 400 /\ r.status # 403

NoExchange == [req |-> "", via |-> "", t |-> "", status |-> 0, content |-> "",
               res |-> NoResult, printed |-> FALSE]
\* the record of an exchange; there is no status when no answer arrived
Exchange(req, via, t, r, res) ==
    [req |-> req, via |-> via, t |-> t,
     status |-> IF t = "resp" THEN r.status ELSE 0,
     content |-> IF t = "resp" THEN r.content ELSE "",
     res |-> res,
     printed |-> CASE via = "_do_get" -> _do_get_prints(t, r)
                   [] via = "_do_post" -> _do_post_prints(t, r)
                   [] OTHER -> FALSE]

PyJson == [ty |-> "json", s |-> "", n |-> 0]

\* RWS2._do_post: what the wrapper returns or raises for a transport outcome
_do_post(t, r) ==
    IF t # "resp" THEN Raise("UnboundLocalError")   \* `response` is unbound in the handler
    ELSE IF r.status >= 400
         THEN (IF r.status = 403 THEN Raise("ABBException403") ELSE Ret(PyNone))
         ELSE (IF r.content = "json" THEN Ret(PyJson) ELSE Ret(PyNone))

\* RWS2._do_get: the parsed body, or None for every failure
_do_get(t, r, body) ==
    IF t = "resp" /\ r.status < 400 /\ r.content = "json"
    THEN [none |-> FALSE, json |-> body]
    ELSE [none |-> TRUE, json |-> body]

_do_get_res(t, r) == IF _do_get(t, r, PyJson).none THEN Ret(PyNone) ELSE Ret(PyJson)

(***************************************************************************)
(* The controller's side of the protocol (the environment).                *)
(***************************************************************************)
\* rw/mastership/request: granted unless another client holds mastership
MastershipRequestReplies(h) ==
    IF h = "other" THEN {Forbidden403, Fail500} ELSE {NoContent204, Fail500}

HolderAfterRequest(h, t, r) == IF Applied(t, r) THEN "self" ELSE h

\* rw/mastership/release: only the holder can release
MastershipReleaseReplies(h) ==
    IF h = "self" THEN {NoContent204, Fail500} ELSE {Forbidden403, Fail500}

HolderAfterRelease(h, t, r) == IF Applied(t, r) THEN "none" ELSE h

\* a mutating POST: refused while another client holds mastership, and the
\* controller may refuse (403) or fail (500) a request in any state
WriteReplies(h) ==
    IF h = "other" THEN {Forbidden403, Fail500}
    ELSE {NoContent204, Forbidden403, Fail500}

\* a GET of an existing resource
ReadReplies == {OK200, NoContent204, Fail500}

(***************************************************************************)
(* RAPID variables                                                         *)
(***************************************************************************)
TestNum == 42

RapidVars == {"test_num"}
TaskArgs == {PyStr("T_ROB1"), PyNone}
Nums == (0 .. MaxNum) \cup {TestNum}
StrValues == {PyStr(ToString(TestNum)), PyInt(0)}
NumValues == {PyInt(n) : n \in Nums} \cup {PyFloat(TestNum)}

\* set_rapid_variable: the symbol path of the write
write_path(var, task) ==
    IF task.ty # "None" THEN py_str(task) \o "/" \o var ELSE var

\* get_rapid_variable: the symbol path of the read
read_path(var, task) == py_str(task) \o "/" \o var

RapidPaths ==
    {write_path(v, t) : v \in RapidVars, t \in TaskArgs}
        \cup {read_path(v, t) : v \in RapidVars, t \in TaskArgs}

Sent(req, implicit) == [req |-> req, implicit |-> implicit, held |-> holder]

\* request_mastership / release_mastership: the session call's exception
\* propagates, every answer is ignored
mastership_result(t, r) == IF t # "resp" THEN Raise("ConnectionError") ELSE Ret(PyNone)

\* RWS2.request_mastership, called on its own
RequestMastership ==
    /\ pc = "idle"
    /\ \E t \in Transports, r \in MastershipRequestReplies(holder) :
        /\ holder' = HolderAfterRequest(holder, t, r)
        /\ call' = [op |-> "request_mastership", held0 |-> holder]
        /\ sent' = <<Sent("mastership/request", FALSE)>>
        /\ last' = Exchange("mastership/request", "session.post", t, r, mastership_result(t, r))
        /\ result' = mastership_result(t, r)
    /\ UNCHANGED <<rapid, active, ctrlexecstate, signals, pc, plan, mockvars, xvars>>

\* RWS2.release_mastership, called on its own
ReleaseMastership ==
    /\ pc = "idle"
    /\ \E t \in Transports, r \in MastershipReleaseReplies(holder) :
        /\ holder' = HolderAfterRelease(holder, t, r)
        /\ call' = [op |-> "release_mastership", held0 |-> holder]
        /\ sent' = <<Sent("mastership/release", FALSE)>>
        /\ last' = Exchange("mastership/release", "session.post", t, r, mastership_result(t, r))
        /\ result' = mastership_result(t, r)
    /\ UNCHANGED <<rapid, active, ctrlexecstate, signals, pc, plan, mockvars, xvars>>

\* set_rapid_variable up to and including self.request_mastership()
BeginWrite(op, var, value, payload, task) ==
    /\ pc = "idle"
    /\ \E t \in Transports, r \in MastershipRequestReplies(holder) :
        /\ holder' = HolderAfterRequest(holder, t, r)
        /\ call' = [op |-> op, var |-> var, value |-> value, payload |-> payload,
                    task |-> task, held0 |-> holder]
        /\ sent' = <<Sent("mastership/request", FALSE)>>
        /\ last' = Exchange("mastership/request", "session.post", t, r, mastership_result(t, r))
        /\ IF mastership_result(t, r).kind = "raise"
           THEN pc' = "idle" /\ result' = mastership_result(t, r)
           ELSE pc' = "srv_post" /\ result' = NoResult
    /\ UNCHANGED <<rapid, active, ctrlexecstate, signals, plan, mockvars, xvars>>

\* RWS2.set_rapid_variable(var, value, task)
SetRapidVariable ==
    \E var \in RapidVars, value \in StrValues, task \in TaskArgs :
        BeginWrite("set_rapid_variable", var, value, value, task)

\* RWS2.set_rapid_variable_num(var, val, task): set_rapid_variable(var, str(val), task)
SetRapidVariableNum ==
    \E var \in RapidVars, val \in NumValues, task \in TaskArgs :
        BeginWrite("set_rapid_variable_num", var, val, PyStr(py_str(val)), task)

\* set_rapid_variable: the write POST through _do_post
WritePost ==
    /\ pc = "srv_post"
    /\ \E t \in Transports, r \in WriteReplies(holder) :
        /\ rapid' = IF Applied(t, r)
                    THEN [rapid EXCEPT ![write_path(call.var, call.task)] = py_str(call.payload)]
                    ELSE rapid
        /\ sent' = Append(sent, Sent("rapid/write", TRUE))
        /\ last' = Exchange("rapid/write", "_do_post", t, r, _do_post(t, r))
        /\ IF _do_post(t, r).kind = "raise"
           THEN pc' = "idle" /\ result' = _do_post(t, r)
           ELSE pc' = "srv_release" /\ result' = NoResult
    /\ UNCHANGED <<holder, active, ctrlexecstate, signals, call, plan, mockvars, xvars>>

\* set_rapid_variable: self.release_mastership(), then return
WriteRelease ==
    /\ pc = "srv_release"
    /\ \E t \in Transports, r \in MastershipReleaseReplies(holder) :
        /\ holder' = HolderAfterRelease(holder, t, r)
        /\ sent' = Append(sent, Sent("mastership/release", FALSE))
        /\ last' = Exchange("mastership/release", "session.post", t, r, mastership_result(t, r))
        /\ result' = mastership_result(t, r)
        /\ pc' = "idle"
    /\ UNCHANGED <<rapid, active, ctrlexecstate, signals, call, plan, mockvars, xvars>>

\* get_rapid_variable's return value for a parsed body: res_json["state"][0]["value"]
rapid_value(got) == IF got.none THEN Raise("TypeError") ELSE Ret(PyStr(got.json))

\* RWS2.get_rapid_variable(var, task)
GetRapidVariable ==
    /\ pc = "idle"
    /\ \E var \in RapidVars, task \in TaskArgs, t \in Transports, r \in ReadReplies :
        /\ call' = [op |-> "get_rapid_variable", var |-> var, task |-> task, held0 |-> holder]
        /\ sent' = <<Sent("rapid/read", TRUE)>>
        /\ last' = Exchange("rapid/read", "_do_get", t, r, _do_get_res(t, r))
        /\ result' = rapid_value(_do_get(t, r, rapid[read_path(var, task)]))
    /\ UNCHANGED <<ctlvars, pc, plan, mockvars, xvars>>

\* another client of the controller takes mastership
OtherRequest ==
    /\ holder = "none"
    /\ holder' = "other"
    /\ UNCHANGED <<rapid, active, ctrlexecstate, signals, pc, call, result, last, sent, plan, mockvars, xvars>>

\* the other client gives mastership back
OtherRelease ==
    /\ holder = "other"
    /\ holder' = "none"
    /\ UNCHANGED <<rapid, active, ctrlexecstate, signals, pc, call, result, last, sent, plan, mockvars, xvars>>

(***************************************************************************)
(* Tasks                                                                   *)
(***************************************************************************)
RobName(i) == "T_ROB" \o ToString(i)
MotionTasks == {RobName(i) : i \in 1 .. MaxRob}
BackgroundTasks == {"T_BG"}
Tasks == MotionTasks \cup BackgroundTasks

\* the order in which the controller lists its tasks
TaskList == [i \in 1 .. MaxRob |-> RobName(i)] \o <<"T_BG">>

\* the body of GET rw/rapid/tasks: _embedded.resources, one entry per task and
\* a trailing resource that is no task (it has no "name")
TaskResources ==
    [i \in 1 .. Len(TaskList) |->
        [hasname |-> TRUE, name |-> TaskList[i], active |-> active[TaskList[i]],
         motiontask |-> TaskList[i] \in MotionTasks, valid |-> TRUE]]
    \o <<[hasname |-> FALSE, name |-> "", active |-> FALSE, motiontask |-> FALSE,
          valid |-> TRUE]>>

\* get_tasks stops at the first entry that TaskState does not validate
stops_at_malformed(resources) ==
    LET bad == {i \in 1 .. Len(resources) :
                    resources[i].hasname /\ ~resources[i].valid}
        first == IF bad = {} THEN Len(resources) + 1
                 ELSE CHOOSE i \in bad : \A j \in bad : i <= j
    IN  SubSeq(resources, 1, first - 1)

\* get_tasks: an entry without "name" is passed over, and so is one that
\* TaskState.model_validate rejects (valid = FALSE: a field is missing or has
\* the wrong type)
IsTask(res) == res.hasname /\ res.valid

get_tasks_stops(got) ==
    IF got.none THEN <<>> ELSE SelectSeq(stops_at_malformed(got.json), IsTask)

\* RWS2.get_tasks: the TaskState records by name, in the order of the listing;
\* empty when the GET failed
get_tasks(got) == IF got.none THEN <<>> ELSE SelectSeq(got.json, IsTask)

\* a task name the controller does not have
UnknownTask == "T_UNKNOWN"

\* the keys of a get_tasks() result that also admit the name nobody listed
TaskNamesUnchecked(rob_tasks) ==
    {rob_tasks[i].name : i \in 1 .. Len(rob_tasks)} \cup {UnknownTask}

\* the keys of the dict get_tasks() returns: `t in rob_tasks`
TaskNames(rob_tasks) == {rob_tasks[i].name : i \in 1 .. Len(rob_tasks)}

\* RWS2.start: the loop over rob_tasks.values(), as the POSTs it issues
start_posts(rob_tasks, tasks) ==
    LET Needs(ts) ==
            /\ ts.motiontask
            /\ IF ts.name \in tasks THEN ~ts.active ELSE ts.active
        sel == SelectSeq(rob_tasks, Needs)
    IN  [i \in 1 .. Len(sel) |->
            [do |-> IF sel[i].name \in tasks THEN "activate" ELSE "deactivate",
             task |-> sel[i].name]]

StartArgs == SUBSET (Tasks \cup {UnknownTask})

\* RWS2.start(cycle, tasks) up to the loop: get_tasks and the unknown-task check
Start ==
    /\ pc = "idle"
    /\ \E tasks \in StartArgs, t \in Transports, r \in ReadReplies :
        LET rob_tasks == get_tasks(_do_get(t, r, TaskResources)) IN
        /\ call' = [op |-> "start", tasks |-> tasks, held0 |-> holder,
                    rob_tasks |-> rob_tasks, active0 |-> active,
                    exec0 |-> ctrlexecstate]
        /\ sent' = <<Sent("rapid/tasks", FALSE)>>
        /\ last' = Exchange("rapid/tasks", "_do_get", t, r, _do_get_res(t, r))
        /\ IF \E x \in tasks : x \notin TaskNames(rob_tasks)
           THEN pc' = "idle" /\ result' = Raise("Exception") /\ plan' = <<>>
           ELSE pc' = "start_tasks" /\ result' = NoResult
                /\ plan' = start_posts(rob_tasks, tasks)
    /\ UNCHANGED <<ctlvars, mockvars, xvars>>

\* the controller carries out an activate or deactivate request
ActiveAfter(do, task, t, r) ==
    IF Applied(t, r) /\ task \in Tasks
    THEN [active EXCEPT ![task] = (do = "activate")]
    ELSE active

\* RWS2.start: one activate_task / deactivate_task of the loop
StartTaskPost ==
    /\ pc = "start_tasks"
    /\ plan # <<>>
    /\ \E t \in Transports, r \in WriteReplies(holder) :
        /\ active' = ActiveAfter(Head(plan).do, Head(plan).task, t, r)
        /\ sent' = Append(sent, Sent("rapid/tasks/" \o Head(plan).do, TRUE))
        /\ last' = Exchange("rapid/tasks/" \o Head(plan).do, "_do_post", t, r, _do_post(t, r))
        /\ IF _do_post(t, r).kind = "raise"
           THEN pc' = "idle" /\ result' = _do_post(t, r) /\ plan' = <<>>
           ELSE pc' = "start_tasks" /\ result' = NoResult /\ plan' = Tail(plan)
    /\ UNCHANGED <<holder, rapid, ctrlexecstate, signals, call, mockvars, xvars>>

\* the result of a method that ends with a _do_post whose value it drops
post_result(t, r) == IF _do_post(t, r).kind = "raise" THEN _do_post(t, r) ELSE Ret(PyNone)

\* RWS2.start with the execution-start POST issued ahead of the loop's requests
StartExecEarly ==
    /\ pc = "start_tasks"
    /\ \E t \in Transports, r \in WriteReplies(holder) :
        /\ ctrlexecstate' = IF Applied(t, r) THEN "running" ELSE ctrlexecstate
        /\ sent' = Append(sent, Sent("rapid/execution/start", TRUE))
        /\ last' = Exchange("rapid/execution/start", "_do_post", t, r, _do_post(t, r))
        /\ result' = post_result(t, r)
        /\ pc' = "idle"
    /\ UNCHANGED <<holder, rapid, active, signals, call, plan, mockvars, xvars>>

\* RWS2.start: the execution-start POST, then return
StartExec ==
    /\ pc = "start_tasks"
    /\ plan = <<>>
    /\ \E t \in Transports, r \in WriteReplies(holder) :
        /\ ctrlexecstate' = IF Applied(t, r) THEN "running" ELSE ctrlexecstate
        /\ sent' = Append(sent, Sent("rapid/execution/start", TRUE))
        /\ last' = Exchange("rapid/execution/start", "_do_post", t, r, _do_post(t, r))
        /\ result' = post_result(t, r)
        /\ pc' = "idle"
    /\ UNCHANGED <<holder, rapid, active, signals, call, plan, mockvars, xvars>>

\* RWS2.activate_task(task) and RWS2.deactivate_task(task), called on their own
SetTaskActive(do) ==
    /\ pc = "idle"
    /\ \E task \in Tasks, t \in Transports, r \in WriteReplies(holder) :
        /\ active' = ActiveAfter(do, task, t, r)
        /\ call' = [op |-> do \o "_task", task |-> task, held0 |-> holder]
        /\ sent' = <<Sent("rapid/tasks/" \o do, TRUE)>>
        /\ last' = Exchange("rapid/tasks/" \o do, "_do_post", t, r, _do_post(t, r))
        /\ result' = post_result(t, r)
    /\ UNCHANGED <<holder, rapid, ctrlexecstate, signals, pc, plan, mockvars, xvars>>

ActivateTask == SetTaskActive("activate")
DeactivateTask == SetTaskActive("deactivate")

\* RWS2.stop()
Stop ==
    /\ pc = "idle"
    /\ \E t \in Transports, r \in WriteReplies(holder) :
        /\ ctrlexecstate' = IF Applied(t, r) THEN "stopped" ELSE ctrlexecstate
        /\ call' = [op |-> "stop", held0 |-> holder]
        /\ sent' = <<Sent("rapid/execution/stop", TRUE)>>
        /\ last' = Exchange("rapid/execution/stop", "_do_post", t, r, _do_post(t, r))
        /\ result' = post_result(t, r)
    /\ UNCHANGED <<holder, rapid, active, signals, pc, plan, mockvars, xvars>>

\* RWS2.resetpp(): the controller moves the program pointer, which no
\* operation modelled here reads
Resetpp ==
    /\ pc = "idle"
    /\ \E t \in Transports, r \in WriteReplies(holder) :
        /\ call' = [op |-> "resetpp", held0 |-> holder]
        /\ sent' = <<Sent("rapid/execution/resetpp", TRUE)>>
        /\ last' = Exchange("rapid/execution/resetpp", "_do_post", t, r, _do_post(t, r))
        /\ result' = post_result(t, r)
    /\ UNCHANGED <<ctlvars, pc, plan, mockvars, xvars>>

\* the bodies the controller answers GET rw/rapid/tasks with: its resources
\* in some order, some of them malformed
Orders(n) == {f \in [1 .. n -> 1 .. n] : \A i, j \in 1 .. n : f[i] = f[j] => i = j}

TaskResponses ==
    {[i \in 1 .. Len(TaskResources) |->
         [TaskResources[f[i]] EXCEPT !.valid = (f[i] \notin bad)]] :
     f \in Orders(Len(TaskResources)), bad \in SUBSET (1 .. Len(TaskResources))}

\* the calls of get_tasks, each with the body the controller has for it
GetTasksCalls == {[op |-> "get_tasks", body |-> body, held0 |-> "none"] : body \in TaskResponses}

\* RWS2.get_tasks(), called on its own
GetTasks ==
    /\ pc = "called"
    /\ call.op = "get_tasks"
    /\ \E t \in Transports, r \in ReadReplies :
        /\ sent' = <<Sent("rapid/tasks", FALSE)>>
        /\ last' = Exchange("rapid/tasks", "_do_get", t, r, _do_get_res(t, r))
        /\ result' = Ret(PyList(get_tasks(_do_get(t, r, call.body))))
    /\ pc' = "idle"
    /\ UNCHANGED <<ctlvars, call, plan, mockvars, xvars>>

(***************************************************************************)
(* IO signals                                                              *)
(***************************************************************************)
SignalNames == {"Auto", "motion_program_error"}

\* where the controller has each signal: its network and its unit
SignalAddr ==
    [s \in SignalNames |->
        IF s = "Auto" THEN [network |-> "IntBus", unit |-> "IoPanel"]
        ELSE [network |-> "Local", unit |-> "DRV_1"]]

\* the ways a caller addresses a signal: by its bare name (the defaults of
\* get_io), fully qualified, with the network alone, and with the network and
\* unit of some other signal
Addressings(signal) ==
    {[network |-> "", unit |-> ""], SignalAddr[signal],
     [network |-> SignalAddr[signal].network, unit |-> ""]}
        \cup {SignalAddr[o] : o \in SignalNames}

\* the signals a path under rw/iosystem/signals names: network/unit/signal
\* names the signal of that name on that unit, a bare name the signal of
\* that name wherever it is (signal names are unique on a controller)
ResolveSignal(path) ==
    IF Len(path) = 1
    THEN {s \in SignalNames : s = path[1]}
    ELSE {s \in SignalNames : /\ s = path[3]
                              /\ SignalAddr[s].network = path[1]
                              /\ SignalAddr[s].unit = path[2]}

TheSignal(path) == CHOOSE s \in ResolveSignal(path) : TRUE

\* the controller's answers to a GET or POST of a signal path
SignalReadReplies(path) ==
    IF ResolveSignal(path) = {} THEN {NotFound404} ELSE {OK200, Fail500}

SignalWriteReplies(path, h) ==
    IF ResolveSignal(path) = {} THEN {NotFound404} ELSE WriteReplies(h)

\* the lvalue in the body of a signal GET
SignalBody(path) == IF ResolveSignal(path) = {} THEN "" ELSE signals[TheSignal(path)]

\* get_io with network and unit in the wrong order in the path
io_path_swapped(signal, network, unit) ==
    IF network # "" /\ unit # "" THEN <<unit, network, signal>> ELSE <<signal>>

\* RWS2.get_io: the path it reads
io_path(signal, network, unit) ==
    IF network # "" /\ unit # "" THEN <<network, unit, signal>> ELSE <<signal>>

\* int(s) of a decimal digit string
py_int(s) ==
    IF \E n \in 0 .. 9 : ToString(n) = s
    THEN Ret(PyInt(CHOOSE n \in 0 .. 9 : ToString(n) = s))
    ELSE Raise("ValueError")

\* get_io returns res_json["_embedded"]["resources"][0]["lvalue"],
\* get_digital_io int() of it
io_result(op, got) ==
    IF got.none THEN Raise("TypeError")
    ELSE IF op = "get_io" THEN Ret(PyStr(got.json)) ELSE py_int(got.json)

IoReadOps == {"get_io", "get_digital_io"}

\* RWS2.get_io / RWS2.get_digital_io (signal, network, unit)
GetIo ==
    /\ pc = "idle"
    /\ \E op \in IoReadOps, signal \in SignalNames, t \in Transports :
       \E addr \in Addressings(signal) :
       \E r \in SignalReadReplies(io_path(signal, addr.network, addr.unit)) :
        /\ call' = [op |-> op, signal |-> signal, network |-> addr.network,
                    unit |-> addr.unit, held0 |-> holder]
        /\ sent' = <<Sent("iosystem/signals", FALSE)>>
        /\ last' = Exchange("iosystem/signals", "_do_get", t, r, _do_get_res(t, r))
        /\ result' = io_result(op, _do_get(t, r,
                                  SignalBody(io_path(signal, addr.network, addr.unit))))
    /\ UNCHANGED <<ctlvars, pc, plan, mockvars, xvars>>

\* the values callers pass for a digital signal
IoValues == {PyInt(0), PyInt(1), PyBool(FALSE), PyBool(TRUE), PyStr("0"), PyStr("1")}

\* set_digital_io: lvalue = '1' if bool(value) else '0'
io_lvalue(value) == IF py_bool(value) THEN "1" ELSE "0"

\* RWS2.set_digital_io(signal, value, network, unit): the path is always
\* network/unit/signal, by default Local/DRV_1
SetDigitalIo ==
    /\ pc = "idle"
    /\ \E signal \in SignalNames, value \in IoValues, t \in Transports :
       \E addr \in {[network |-> "Local", unit |-> "DRV_1"], SignalAddr[signal]} :
       \E r \in SignalWriteReplies(<<addr.network, addr.unit, signal>>, holder) :
        /\ signals' = IF Applied(t, r)
                      THEN [signals EXCEPT ![signal] = io_lvalue(value)]
                      ELSE signals
        /\ call' = [op |-> "set_digital_io", signal |-> signal, value |-> value,
                    network |-> addr.network, unit |-> addr.unit, held0 |-> holder]
        /\ sent' = <<Sent("iosystem/signals", TRUE)>>
        /\ last' = Exchange("iosystem/signals", "_do_post", t, r, _do_post(t, r))
        /\ result' = post_result(t, r)
    /\ UNCHANGED <<holder, rapid, active, ctrlexecstate, pc, plan, mockvars, xvars>>

(***************************************************************************)
(* RWSMock                                                                 *)
(***************************************************************************)
MockSignalArgs == SignalNames

\* RWSMock.get_digital_io: int(self._dio.get(signal, 0))
mock_get_digital_io(dio, signal, network, unit) ==
    IF signal \in DOMAIN dio THEN dio[signal] ELSE 0

\* RWSMock.set_digital_io: self._dio[signal] = 1 if bool(value) else 0
mock_set_digital_io(dio, signal, value) ==
    [s \in DOMAIN dio \cup {signal} |->
        IF s = signal THEN (IF py_bool(value) THEN 1 ELSE 0) ELSE dio[s]]

MockAddressings == {[network |-> "", unit |-> ""]} \cup {SignalAddr[o] : o \in SignalNames}

MockGetDigitalIo ==
    \E signal \in MockSignalArgs \cup {"no_such_signal"}, addr \in MockAddressings :
        /\ m_ret' = [op |-> "get_digital_io", signal |-> signal,
                     network |-> addr.network, unit |-> addr.unit,
                     existed |-> signal \in DOMAIN m_dio,
                     res |-> Ret(PyInt(mock_get_digital_io(m_dio, signal, addr.network,
                                                           addr.unit)))]
        /\ UNCHANGED <<ctlvars, pc, call, result, last, sent, plan, m_dio, xvars>>

MockSetDigitalIo ==
    \E signal \in MockSignalArgs, value \in IoValues :
        /\ m_dio' = mock_set_digital_io(m_dio, signal, value)
        /\ m_ret' = [op |-> "set_digital_io", signal |-> signal, network |-> "",
                     unit |-> "", value |-> value, res |-> Ret(PyNone)]
        /\ UNCHANGED <<ctlvars, pc, call, result, last, sent, plan, xvars>>

(***************************************************************************)
(* Subscription requests                                                   *)
(***************************************************************************)
SubscriptionResourceType ==
    [ControllerState |-> 1, OperationalMode |-> 2, ExecutionState |-> 3,
     PersVar |-> 4, IpcQueue |-> 5, Elog |-> 6, Signal |-> 7]

SubscriptionResourcePriority == [Low |-> 0, Medium |-> 1, High |-> 2]

Range(f) == {f[x] : x \in DOMAIN f}

\* the arguments callers pass: every member of the enumerations, and one
\* integer that is no member
ResourceTypeArgs == Range(SubscriptionResourceType) \cup {0}
PriorityArgs == Range(SubscriptionResourcePriority) \cup {3}
ParamArgs == {PyNone, PyStr("test_num")}

\* SubscriptionResourceRequest(resource_type=, priority=, param=): the pydantic
\* model validates each field against its type, and nothing else
SubscriptionResourceRequest(resource_type, priority, param) ==
    IF /\ resource_type \in Range(SubscriptionResourceType)
       /\ priority \in Range(SubscriptionResourcePriority)
    THEN Ret([ty |-> "SubscriptionResourceRequest", s |-> "", n |-> 0,
              resource_type |-> resource_type, priority |-> priority,
              param |-> param])
    ELSE Raise("ValidationError")

\* the constructor calls callers make
SubscriptionCalls ==
    {[op |-> "SubscriptionResourceRequest", resource_type |-> resource_type,
      priority |-> priority, param |-> param, held0 |-> "none"] :
     resource_type \in ResourceTypeArgs, priority \in PriorityArgs, param \in ParamArgs}

\* a caller constructs a SubscriptionResourceRequest
NewSubscriptionRequest ==
    /\ pc = "called"
    /\ call.op = "SubscriptionResourceRequest"
    /\ pc' = "idle"
    /\ result' = SubscriptionResourceRequest(call.resource_type, call.priority, call.param)
    /\ UNCHANGED <<ctlvars, call, sent, last, plan, mockvars, xvars>>

(***************************************************************************)
(* Event log                                                               *)
(***************************************************************************)
ArgValues(k) == [i \in 1 .. k |-> "arg" \o ToString(i)]

\* an entry of _embedded.resources of GET rw/elog/<id>: its declared argument
\* count, its argv (if it has one) and whether its tstamp is in the format
\* '%Y-%m-%d T %H:%M:%S'
LogEntries ==
    [argc : 0 .. MaxArgs, hasargv : {TRUE}, argv : {ArgValues(k) : k \in 0 .. MaxArgs},
     tstamp_ok : BOOLEAN]
        \cup [argc : 0 .. MaxArgs, hasargv : {FALSE}, argv : {<<>>}, tstamp_ok : {TRUE}]

EventLogs == UNION {[1 .. k -> LogEntries] : k \in 0 .. MaxLog}

\* read_event_log: the EventLogEntry made of one log_entry: nargs is computed
\* and not used, args are the values of argv
EventLogEntry(log_entry) ==
    [args |-> IF log_entry.hasargv THEN log_entry.argv ELSE <<>>]

\* RWS2.read_event_log: strptime raises ValueError on a tstamp in another format
read_event_log(got) ==
    IF got.none THEN Raise("TypeError")
    ELSE IF \E i \in 1 .. Len(got.json) : ~got.json[i].tstamp_ok
         THEN Raise("ValueError")
         ELSE Ret(PyList([i \in 1 .. Len(got.json) |-> EventLogEntry(got.json[i])]))

\* the calls of read_event_log, each with the body the controller has for it
EventLogCalls == {[op |-> "read_event_log", body |-> log, held0 |-> "none"] : log \in EventLogs}

\* RWS2.read_event_log(elog)
ReadEventLog ==
    /\ pc = "called"
    /\ call.op = "read_event_log"
    /\ \E t \in Transports, r \in ReadReplies :
        /\ sent' = <<Sent("elog", FALSE)>>
        /\ last' = Exchange("elog", "_do_get", t, r, _do_get_res(t, r))
        /\ result' = read_event_log(_do_get(t, r, call.body))
    /\ pc' = "idle"
    /\ UNCHANGED <<ctlvars, call, plan, mockvars, xvars>>

(***************************************************************************)
(* Files                                                                   *)
(***************************************************************************)
ModuleFile == "motion_program_exec.mod"
ModuleText == "MODULE motion_program_exec"
TestFile == "test_upload.txt"
TestContent == "Test file content"

FileNames == {TestFile, ModuleFile}
HomeDir == "$HOME"
FilePaths == {HomeDir \o "/" \o f : f \in FileNames}

Absent == [exists |-> FALSE, data |-> ""]
File(data) == [exists |-> TRUE, data |-> data]

\* the contents callers upload, and the directory arguments (the default of
\* read_file, upload_file and delete_file is "$HOME")
Contents == {TestContent, ModuleText}
DirArgs == {HomeDir}

\* f"fileservice/{directory}/{filename}"
file_path(filename, directory) == directory \o "/" \o filename

Created201 == [status |-> 201, content |-> "empty"]

\* the controller's answers on fileservice/<path>
FileReadReplies(path) == IF files[path].exists THEN {OK200, Fail500} ELSE {NotFound404}
FileWriteReplies == {Created201, Fail500}
FileDeleteReplies(path) ==
    IF files[path].exists THEN {NoContent204, Fail500} ELSE {NotFound404}

\* the body of the answer to a GET: the file, or the error document
FileBody(path, r) ==
    IF r.status = 200 THEN files[path].data
    ELSE "error " \o ToString(r.status)

\* RWS2._do_get_raw: the response as it is, the session's exception propagates
_do_get_raw(t, r, body) ==
    IF t # "resp" THEN Raise("ConnectionError") ELSE Ret(PyBytes(body))

\* read_file returns the body whatever the status
read_file_any_status(op, got) ==
    IF got.kind = "raise" THEN got
    ELSE IF op = "read_file" THEN got ELSE Ret(PyStr(got.value.s))

FileReadOps == {"read_file", "read_file_str"}

\* RWS2.read_file / RWS2.read_file_str (filename, directory)
ReadFile ==
    /\ pc = "idle"
    /\ \E op \in FileReadOps, filename \in FileNames, directory \in DirArgs,
          t \in Transports :
       \E r \in FileReadReplies(file_path(filename, directory)) :
        /\ call' = [op |-> op, filename |-> filename, directory |-> directory,
                    existed |-> files[file_path(filename, directory)].exists,
                    held0 |-> holder]
        /\ sent' = <<Sent("fileservice/get", FALSE)>>
        /\ last' = Exchange("fileservice/get", "_do_get_raw", t, r,
                            _do_get_raw(t, r, FileBody(file_path(filename, directory), r)))
        /\ result' = read_file_any_status(op,
                        _do_get_raw(t, r, FileBody(file_path(filename, directory), r)))
    /\ UNCHANGED <<ctlvars, pc, plan, mockvars, xvars>>

\* upload_file: raise Exception(res.reason) unless res.ok
upload_result(t, r) ==
    IF t # "resp" THEN Raise("ConnectionError")
    ELSE IF r.status >= 400 THEN Raise("Exception") ELSE Ret(PyNone)

\* RWS2.upload_file(filename, contents, directory)
UploadFile ==
    /\ pc = "idle"
    /\ \E contents \in Contents, directory \in DirArgs, t \in Transports,
          r \in FileWriteReplies :
        /\ files' = IF Applied(t, r)
                    THEN [files EXCEPT ![file_path(TestFile, directory)] = File(contents)]
                    ELSE files
        /\ call' = [op |-> "upload_file", filename |-> TestFile, directory |-> directory,
                    contents |-> contents, held0 |-> holder]
        /\ sent' = <<Sent("fileservice/put", FALSE)>>
        /\ last' = Exchange("fileservice/put", "session.put", t, r, upload_result(t, r))
        /\ result' = upload_result(t, r)
    /\ UNCHANGED <<ctlvars, pc, plan, mockvars, panelvars, mockstate, auxvars>>

\* delete_file: res.close(), whatever the status
delete_result(t, r) == IF t # "resp" THEN Raise("ConnectionError") ELSE Ret(PyNone)

\* RWS2.delete_file(filename, directory)
DeleteFile ==
    /\ pc = "idle"
    /\ \E directory \in DirArgs, t \in Transports :
       \E r \in FileDeleteReplies(file_path(TestFile, directory)) :
        /\ files' = IF Applied(t, r)
                    THEN [files EXCEPT ![file_path(TestFile, directory)] = Absent]
                    ELSE files
        /\ call' = [op |-> "delete_file", filename |-> TestFile, directory |-> directory,
                    held0 |-> holder]
        /\ sent' = <<Sent("fileservice/delete", FALSE)>>
        /\ last' = Exchange("fileservice/delete", "session.delete", t, r, delete_result(t, r))
        /\ result' = delete_result(t, r)
    /\ UNCHANGED <<ctlvars, pc, plan, mockvars, panelvars, mockstate, auxvars>>

(***************************************************************************)
(* Panel: speed ratio and controller state                                 *)
(***************************************************************************)
MaxSpeedRatio == 100
TestSpeedRatio == 50

\* the speed ratios callers pass: the ends of the range, a value inside, the
\* values just outside, and a float
SpeedArgs ==
    {PyInt(n) : n \in {0 - 1, 0, TestSpeedRatio, MaxSpeedRatio, MaxSpeedRatio + 1}}
        \cup {PyFloat(TestSpeedRatio)}

\* the number a payload string denotes
SpeedOf(payload) == (CHOOSE a \in SpeedArgs : py_str(a) = payload).n

BadRequest400 == [status |-> 400, content |-> "json"]

\* the controller's answers to a POST on rw/panel/speedratio: it takes a speed
\* ratio between 0 and 100
SpeedReplies(payload, h) ==
    IF SpeedOf(payload) \in 0 .. MaxSpeedRatio THEN WriteReplies(h) ELSE {BadRequest400}

\* RWS2.set_speedratio(speedratio)
SetSpeedratio ==
    /\ pc = "idle"
    /\ \E v \in SpeedArgs, t \in Transports :
       \E r \in SpeedReplies(py_str(v), holder) :
        /\ speedratio' = IF Applied(t, r) THEN SpeedOf(py_str(v)) ELSE speedratio
        /\ call' = [op |-> "set_speedratio", value |-> v, held0 |-> holder]
        /\ sent' = <<Sent("panel/speedratio", TRUE)>>
        /\ last' = Exchange("panel/speedratio", "_do_post", t, r, _do_post(t, r))
        /\ result' = post_result(t, r)
    /\ UNCHANGED <<ctlvars, pc, plan, mockvars, files, ctrlstate, mockstate, auxvars>>

\* get_speedratio: float(state["speedratio"]) of the parsed body
speedratio_result(got) == IF got.none THEN Raise("TypeError") ELSE Ret(PyFloat(got.json))

\* RWS2.get_speedratio()
GetSpeedratio ==
    /\ pc = "idle"
    /\ \E t \in Transports, r \in ReadReplies :
        /\ call' = [op |-> "get_speedratio", held0 |-> holder]
        /\ sent' = <<Sent("panel/speedratio", FALSE)>>
        /\ last' = Exchange("panel/speedratio", "_do_get", t, r, _do_get_res(t, r))
        /\ result' = speedratio_result(_do_get(t, r, speedratio))
    /\ UNCHANGED <<ctlvars, pc, plan, mockvars, xvars>>

\* the controller states of get_controller_state's documentation
ControllerStates ==
    {"init", "motoroff", "motoron", "guardstop", "emergencystop",
     "emergencystopreset", "sysfail"}
SettableStates == {"motoron", "motoroff"}
CtrlStateArgs == SettableStates \cup {"guardstop"}

\* the controller's answers to a POST on rw/panel/ctrl-state
CtrlStateReplies(ctrl_state, h) ==
    IF ctrl_state \in SettableStates THEN WriteReplies(h) ELSE {BadRequest400}

\* RWS2.set_controller_state(ctrl_state); set_motors_on and set_motors_off
\* call it with "motoron" and "motoroff"
SetControllerStateAs(op, ctrl_state) ==
    /\ pc = "idle"
    /\ \E t \in Transports, r \in CtrlStateReplies(ctrl_state, holder) :
        /\ ctrlstate' = IF Applied(t, r) THEN ctrl_state ELSE ctrlstate
        /\ call' = [op |-> op, ctrl_state |-> ctrl_state, held0 |-> holder]
        /\ sent' = <<Sent("panel/ctrl-state", TRUE)>>
        /\ last' = Exchange("panel/ctrl-state", "_do_post", t, r, _do_post(t, r))
        /\ result' = post_result(t, r)
    /\ UNCHANGED <<ctlvars, pc, plan, mockvars, files, speedratio, mockstate, auxvars>>

SetControllerState ==
    \E ctrl_state \in CtrlStateArgs : SetControllerStateAs("set_controller_state", ctrl_state)
SetMotorsOn == SetControllerStateAs("set_motors_on", "motoron")
SetMotorsOff == SetControllerStateAs("set_motors_off", "motoroff")

\* get_controller_state: state['ctrlstate'] of the parsed body
ctrlstate_result(got) == IF got.none THEN Raise("TypeError") ELSE Ret(PyStr(got.json))

\* RWS2.get_controller_state()
GetControllerState ==
    /\ pc = "idle"
    /\ \E t \in Transports, r \in ReadReplies :
        /\ call' = [op |-> "get_controller_state", held0 |-> holder]
        /\ sent' = <<Sent("panel/ctrl-state", FALSE)>>
        /\ last' = Exchange("panel/ctrl-state", "_do_get", t, r, _do_get_res(t, r))
        /\ result' = ctrlstate_result(_do_get(t, r, ctrlstate))
    /\ UNCHANGED <<ctlvars, pc, plan, mockvars, xvars>>

(***************************************************************************)
(* RWSMock: files                                                          *)
(***************************************************************************)
\* the directory arguments given to the mock: "" is the default, None
MockDirArgs == {"", HomeDir, "/TEMP/"}

\* directory.rstrip('/') of a directory argument
rstrip_slash(directory) == IF directory = "/TEMP/" THEN "/TEMP" ELSE directory

\* RWSMock._resolve_path (no file name given here starts with '/')
_resolve_path(filename, directory) ==
    IF directory # "" THEN rstrip_slash(directory) \o "/" \o filename ELSE filename

\* RWSMock.read_file
mock_read_file(mfiles, filename, directory) ==
    IF _resolve_path(filename, directory) \in DOMAIN mfiles
    THEN Ret(PyBytes(mfiles[_resolve_path(filename, directory)]))
    ELSE Raise("FileNotFoundError")

\* RWSMock.read_file_str: the decoded file, or str(e) of the FileNotFoundError
mock_read_file_str(mfiles, filename, directory) ==
    IF mock_read_file(mfiles, filename, directory).kind = "raise"
    THEN Ret(PyStr("Path does not exist: " \o _resolve_path(filename, directory)))
    ELSE Ret(PyStr(mock_read_file(mfiles, filename, directory).value.s))

MockReadFile ==
    \E op \in FileReadOps, filename \in FileNames, directory \in MockDirArgs :
        /\ m_ret' = [op |-> op, filename |-> filename, directory |-> directory,
                     existed |-> _resolve_path(filename, directory) \in DOMAIN m_files,
                     res |-> IF op = "read_file"
                             THEN mock_read_file(m_files, filename, directory)
                             ELSE mock_read_file_str(m_files, filename, directory)]
        /\ UNCHANGED <<ctlvars, pc, call, result, last, sent, plan, m_dio, xvars>>

\* RWSMock.upload_file: content is a str or bytes, stored as bytes
MockUploadFile ==
    \E content \in {PyStr(TestContent), PyBytes(TestContent)}, directory \in MockDirArgs :
        /\ m_files' = (_resolve_path(TestFile, directory) :> content.s) @@ m_files
        /\ m_ret' = [op |-> "upload_file", filename |-> TestFile, directory |-> directory,
                     contents |-> content, res |-> Ret(PyNone)]
        /\ UNCHANGED <<ctlvars, pc, call, result, last, sent, plan, m_dio, files,
                       panelvars, m_speedratio, m_controller_state, m_rapid, auxvars>>

\* RWSMock.delete_file
MockDeleteFile ==
    \E directory \in MockDirArgs :
        /\ m_files' = [q \in DOMAIN m_files \ {_resolve_path(TestFile, directory)} |->
                          m_files[q]]
        /\ m_ret' = [op |-> "delete_file", filename |-> TestFile, directory |-> directory,
                     res |-> Ret(PyNone)]
        /\ UNCHANGED <<ctlvars, pc, call, result, last, sent, plan, m_dio, files,
                       panelvars, m_speedratio, m_controller_state, m_rapid, auxvars>>

(***************************************************************************)
(* RWSMock: panel                                                          *)
(***************************************************************************)
\* int(v) of an int or of a float without a fractional part
int_of_number(v) == v.n

\* RWSMock.set_speedratio without its range check
mock_set_speedratio_unchecked(cur, v) ==
    [res |-> Ret(PyNone), speedratio |-> int_of_number(v)]

\* RWSMock.set_speedratio: the outcome and the value of _speedratio after it
mock_set_speedratio(cur, v) ==
    IF 0 <= int_of_number(v) /\ int_of_number(v) <= MaxSpeedRatio
    THEN [res |-> Ret(PyNone), speedratio |-> int_of_number(v)]
    ELSE [res |-> Raise("ValueError"), speedratio |-> cur]

\* RWSMock.get_speedratio: int(self._speedratio)
mock_get_speedratio(cur) == PyInt(cur)

MockSetSpeedratio ==
    \E v \in SpeedArgs :
        /\ m_speedratio' = mock_set_speedratio(m_speedratio, v).speedratio
        /\ m_ret' = [op |-> "set_speedratio", value |-> v,
                     res |-> mock_set_speedratio(m_speedratio, v).res]
        /\ UNCHANGED <<ctlvars, pc, call, result, last, sent, plan, m_dio, files,
                       panelvars, m_files, m_controller_state, m_rapid, auxvars>>

MockGetSpeedratio ==
    /\ m_ret' = [op |-> "get_speedratio", res |-> Ret(mock_get_speedratio(m_speedratio))]
    /\ UNCHANGED <<ctlvars, pc, call, result, last, sent, plan, m_dio, xvars>>

\* RWSMock.set_controller_state: the outcome and _controller_state after it
mock_set_controller_state(cur, ctrl_state) ==
    IF ctrl_state \notin SettableStates
    THEN [res |-> Raise("ValueError"), state |-> cur]
    ELSE [res |-> Ret(PyNone), state |-> ctrl_state]

MockSetControllerState ==
    \E ctrl_state \in CtrlStateArgs :
        /\ m_controller_state' = mock_set_controller_state(m_controller_state, ctrl_state).state
        /\ m_ret' = [op |-> "set_controller_state", ctrl_state |-> ctrl_state,
                     res |-> mock_set_controller_state(m_controller_state, ctrl_state).res]
        /\ UNCHANGED <<ctlvars, pc, call, result, last, sent, plan, m_dio, files,
                       panelvars, m_files, m_speedratio, m_rapid, auxvars>>

\* RWSMock.set_motors_on / RWSMock.set_motors_off
MockSetMotors(op, ctrl_state) ==
    /\ m_controller_state' = ctrl_state
    /\ m_ret' = [op |-> op, ctrl_state |-> ctrl_state, res |-> Ret(PyNone)]
    /\ UNCHANGED <<ctlvars, pc, call, result, last, sent, plan, m_dio, files,
                   panelvars, m_files, m_speedratio, m_rapid, auxvars>>

MockSetMotorsOn == MockSetMotors("set_motors_on", "motoron")
MockSetMotorsOff == MockSetMotors("set_motors_off", "motoroff")

\* RWSMock.get_controller_state
MockGetControllerState ==
    /\ m_ret' = [op |-> "get_controller_state", res |-> Ret(PyStr(m_controller_state))]
    /\ UNCHANGED <<ctlvars, pc, call, result, last, sent, plan, m_dio, xvars>>

(***************************************************************************)
(* RWSMock: RAPID variables                                                *)
(***************************************************************************)
\* the task arguments given to the mock: a task name, or None / ''
MockTaskArgs == {PyStr("T_ROB1"), PyNone}
MockVarArgs == RapidVars \cup {"no_such_var"}

\* RWSMock._qualify_var: f"{task}/{var}" if task else var
_qualify_var(var, task) == IF py_bool(task) THEN py_str(task) \o "/" \o var ELSE var

\* RWSMock.get_rapid_variable: self._rapid.get(key, "0")
mock_get_rapid_variable(mrapid, var, task) ==
    IF _qualify_var(var, task) \in DOMAIN mrapid
    THEN mrapid[_qualify_var(var, task)] ELSE "0"

\* RWSMock.set_rapid_variable: self._rapid[key] = str(value)
mock_set_rapid_variable(mrapid, var, value, task) ==
    (_qualify_var(var, task) :> py_str(value)) @@ mrapid

MockGetRapidVariable ==
    \E var \in MockVarArgs, task \in MockTaskArgs :
        /\ m_ret' = [op |-> "get_rapid_variable", var |-> var, task |-> task,
                     existed |-> _qualify_var(var, task) \in DOMAIN m_rapid,
                     res |-> Ret(PyStr(mock_get_rapid_variable(m_rapid, var, task)))]
        /\ UNCHANGED <<ctlvars, pc, call, result, last, sent, plan, m_dio, xvars>>

\* RWSMock.set_rapid_variable(var, value, task)
MockSetRapidVariable ==
    \E var \in RapidVars, value \in StrValues, task \in MockTaskArgs :
        /\ m_rapid' = mock_set_rapid_variable(m_rapid, var, value, task)
        /\ m_ret' = [op |-> "set_rapid_variable", var |-> var, task |-> task,
                     value |-> value, res |-> Ret(PyNone)]
        /\ UNCHANGED <<ctlvars, pc, call, result, last, sent, plan, m_dio, files,
                       panelvars, m_files, m_speedratio, m_controller_state, auxvars>>

\* RWSMock.set_rapid_variable_num: set_rapid_variable(var, str(val), task)
MockSetRapidVariableNum ==
    \E var \in RapidVars, val \in NumValues, task \in MockTaskArgs :
        /\ m_rapid' = mock_set_rapid_variable(m_rapid, var, PyStr(py_str(val)), task)
        /\ m_ret' = [op |-> "set_rapid_variable_num", var |-> var, task |-> task,
                     value |-> val, res |-> Ret(PyNone)]
        /\ UNCHANGED <<ctlvars, pc, call, result, last, sent, plan, m_dio, files,
                       panelvars, m_files, m_speedratio, m_controller_state, auxvars>>

(***************************************************************************)
(* RWSMock: execution and tasks                                            *)
(***************************************************************************)
\* RWSMock.start that stores the state before it looks at the controller state
mock_start_unguarded(ctrl_state, cur) ==
    IF ctrl_state # "motoron"
    THEN [res |-> Raise("RuntimeError"), exec |-> "running"]
    ELSE [res |-> Ret(PyNone), exec |-> "running"]

\* RWSMock.start: the outcome and _exec_state after it
mock_start(ctrl_state, cur) ==
    IF ctrl_state # "motoron"
    THEN [res |-> Raise("RuntimeError"), exec |-> cur]
    ELSE [res |-> Ret(PyNone), exec |-> "running"]

MockStart ==
    /\ m_exec_state' = mock_start(m_controller_state, m_exec_state).exec
    /\ m_ret' = [op |-> "start", ctrl0 |-> m_controller_state,
                 res |-> mock_start(m_controller_state, m_exec_state).res]
    /\ UNCHANGED <<ctlvars, pc, call, result, last, sent, plan, m_dio, files,
                   panelvars, mockstate, m_tasks, threads>>

\* RWSMock.stop
MockStop ==
    /\ m_exec_state' = "stopped"
    /\ m_ret' = [op |-> "stop", res |-> Ret(PyNone)]
    /\ UNCHANGED <<ctlvars, pc, call, result, last, sent, plan, m_dio, files,
                   panelvars, mockstate, m_tasks, threads>>

\* RWSMock.get_execution_state
MockGetExecutionState ==
    /\ m_ret' = [op |-> "get_execution_state", res |-> Ret(PyStr(m_exec_state))]
    /\ UNCHANGED <<ctlvars, pc, call, result, last, sent, plan, m_dio, xvars>>

\* the task names given to the mock
MockTaskNames == {"T_ROB1", UnknownTask}

\* RWSMock.activate_task / RWSMock.deactivate_task: unknown names are ignored
mock_set_task_active(mtasks, task, value) ==
    IF task \in DOMAIN mtasks THEN [mtasks EXCEPT ![task] = value] ELSE mtasks

MockSetTaskActive(op, value) ==
    \E task \in MockTaskNames :
        /\ m_tasks' = mock_set_task_active(m_tasks, task, value)
        /\ m_ret' = [op |-> op, task |-> task, res |-> Ret(PyNone)]
        /\ UNCHANGED <<ctlvars, pc, call, result, last, sent, plan, m_dio, files,
                       panelvars, mockstate, m_exec_state, threads>>

MockActivateTask == MockSetTaskActive("activate_task", TRUE)
MockDeactivateTask == MockSetTaskActive("deactivate_task", FALSE)

(***************************************************************************)
(* Several threads calling one RWS2 client.  Each call is run in a worker  *)
(* thread (asyncio.to_thread) and issues its requests on the one          *)
(* requests.Session of the client; the wrappers take no lock.              *)
(***************************************************************************)
Threads == 1 .. MaxThreads

\* the calls a thread makes, and the number of HTTP requests of each
ThreadOps == {"resetpp", "get_speedratio", "set_rapid_variable", "set_rapid_variable_num"}
ThreadRequests(op) ==
    IF op \in {"set_rapid_variable", "set_rapid_variable_num"} THEN 3 ELSE 1

ThreadIdle == [op |-> "", left |-> 0, inflight |-> FALSE]

\* the threads that have a request in flight on the session
InFlight == {t \in Threads : threads[t].inflight}

ThreadFrame == UNCHANGED <<ctlvars, pc, call, result, last, sent, plan, mockvars, files,
                           panelvars, mockstate, m_exec_state, m_tasks>>

\* a worker thread is handed a call on the shared client
ThreadCall(t) ==
    /\ threads[t] = ThreadIdle
    /\ \E op \in ThreadOps :
           threads' = [threads EXCEPT ![t] = [op |-> op, left |-> ThreadRequests(op),
                                              inflight |-> FALSE]]
    /\ ThreadFrame

\* the thread's call reaches self._session.get / self._session.post
ThreadSend(t) ==
    /\ threads[t].left > 0
    /\ ~threads[t].inflight
    /\ threads' = [threads EXCEPT ![t].inflight = TRUE]
    /\ ThreadFrame

\* the response arrives; after its last request the call returns
ThreadReceive(t) ==
    /\ threads[t].inflight
    /\ threads' = [threads EXCEPT ![t] =
                      IF threads[t].left = 1 THEN ThreadIdle
                      ELSE [threads[t] EXCEPT !.left = @ - 1, !.inflight = FALSE]]
    /\ ThreadFrame

(***************************************************************************)
(* The shared interface: the methods the classes define                    *)
(***************************************************************************)
\* COMMON_METHODS of tests/test_mock_sync.py
COMMON_METHODS ==
    {"start", "stop", "resetpp", "get_execution_state", "get_controller_state",
     "set_controller_state", "set_motors_on", "set_motors_off", "get_operation_mode",
     "get_speedratio", "set_speedratio", "is_mastered", "get_tasks", "activate_task",
     "deactivate_task", "get_digital_io", "set_digital_io", "get_analog_io",
     "set_analog_io", "get_rapid_variable", "get_rapid_variable_num",
     "set_rapid_variable", "set_rapid_variable_num", "get_ramdisk_path", "read_file",
     "read_file_str", "upload_file", "delete_file", "read_event_log", "get_mechunits",
     "get_jointtarget", "get_robtarget"}

MastershipMethods == {"request_mastership", "release_mastership"}

\* the public methods class RWS2 defines (it has no base class)
RWS2Methods ==
    {"start", "activate_task", "deactivate_task", "stop", "resetpp", "get_ramdisk_path",
     "get_execution_state", "get_controller_state", "set_controller_state",
     "set_motors_on", "set_motors_off", "get_operation_mode", "get_io",
     "get_digital_io", "set_digital_io", "get_analog_io", "get_rapid_variable",
     "set_rapid_variable", "read_file", "read_file_str", "upload_file", "delete_file",
     "read_event_log", "get_tasks", "get_jointtarget", "get_robtarget",
     "get_rapid_variable_num", "set_rapid_variable_num", "read_ipc_message",
     "get_speedratio", "set_speedratio", "request_mastership", "release_mastership"}

\* the public methods class RWSMock defines itself
RWSMockMethods ==
    {"start", "stop", "resetpp", "get_execution_state", "get_controller_state",
     "set_controller_state", "set_motors_on", "set_motors_off", "get_operation_mode",
     "get_speedratio", "set_speedratio", "is_mastered", "get_tasks", "activate_task",
     "deactivate_task", "get_digital_io", "set_digital_io", "get_analog_io",
     "set_analog_io", "get_rapid_variable", "get_rapid_variable_num",
     "get_rapid_variable_num_array", "set_rapid_variable", "set_rapid_variable_num",
     "get_ramdisk_path", "read_file", "read_file_str", "upload_file", "delete_file",
     "read_event_log", "get_mechunits", "get_jointtarget", "get_robtarget"}

\* hasattr(cls, name) for a method name
hasattr(cls, name) ==
    IF cls = "RWS2" THEN name \in RWS2Methods ELSE name \in RWSMockMethods

\* the lookups test_common_methods_present_on_all makes, and those of the
\* mastership methods on RWS2
HasAttrCalls ==
    {[op |-> "hasattr", cls |-> cls, name |-> name, held0 |-> "none"] :
     cls \in {"RWS2", "RWSMock"}, name \in COMMON_METHODS}
    \cup {[op |-> "hasattr", cls |-> "RWS2", name |-> name, held0 |-> "none"] :
          name \in MastershipMethods}

\* assert hasattr(cls, name)
HasAttr ==
    /\ pc = "called"
    /\ call.op = "hasattr"
    /\ pc' = "idle"
    /\ result' = IF hasattr(call.cls, call.name) THEN Ret(PyBool(TRUE))
                 ELSE Raise("AssertionError")
    /\ UNCHANGED <<ctlvars, call, sent, last, plan, mockvars, xvars>>

(***************************************************************************)
(* Initial values                                                          *)
(***************************************************************************)

NoCall == [op |-> "", held0 |-> "none"]
NoMockCall == [op |-> "", signal |-> "", network |-> "", unit |-> "", res |-> NoResult]

InitClient ==
    /\ pc = "idle"
    /\ call = NoCall
    /\ result = NoResult
    /\ last = NoExchange
    /\ sent = <<>>
    /\ plan = <<>>

InitMock ==
    /\ m_dio = [s \in SignalNames |-> IF s = "Auto" THEN 1 ELSE 0]
    /\ m_ret = NoMockCall
    /\ m_files = ("$HOME/" \o ModuleFile :> ModuleText) @@ ("/TEMP/" \o ModuleFile :> ModuleText)
    /\ m_speedratio = MaxSpeedRatio
    /\ m_controller_state = "motoroff"
    /\ m_rapid = ("T_ROB1/MOTION_PROGRAM_CMD_MOVEL" :> "3") @@ ("T_ROB1/test_num" :> "0")
    /\ m_exec_state = "stopped"
    /\ m_tasks = [t \in {"T_ROB1"} |-> TRUE]
    /\ threads = [t \in Threads |-> ThreadIdle]

\* the controller's files, panel and signals when the client connects
InitPanel ==
    /\ files = [p \in FilePaths |-> IF p = "$HOME/" \o ModuleFile
                                     THEN File(ModuleText) ELSE Absent]
    /\ speedratio = MaxSpeedRatio
    /\ ctrlstate = "motoroff"

Init ==
    /\ holder = "none"
    /\ rapid = [p \in RapidPaths |-> "0"]
    /\ active = [t \in Tasks |-> TRUE]
    /\ ctrlexecstate = "stopped"
    /\ signals = [s \in SignalNames |-> IF s = "Auto" THEN "1" ELSE "0"]
    /\ InitClient
    /\ InitMock
    /\ InitPanel

Next ==
    \/ RequestMastership
    \/ ReleaseMastership
    \/ SetRapidVariable
    \/ SetRapidVariableNum
    \/ WritePost
    \/ WriteRelease
    \/ GetRapidVariable
    \/ OtherRequest
    \/ OtherRelease

Spec == Init /\ [][Next]_vars

\* Task control: start from every activation state of the controller's tasks
TaskInit ==
    /\ holder = "none"
    /\ rapid = [p \in RapidPaths |-> "0"]
    /\ active \in [Tasks -> BOOLEAN]
    /\ ctrlexecstate = "stopped"
    /\ signals = [s \in SignalNames |-> IF s = "Auto" THEN "1" ELSE "0"]
    /\ InitClient
    /\ InitMock
    /\ InitPanel

TaskNext ==
    \/ Start
    \/ StartTaskPost
    \/ StartExec
    \/ ActivateTask
    \/ DeactivateTask
    \/ Stop
    \/ Resetpp

TaskSpec == TaskInit /\ [][TaskNext]_vars

\* Signals: RWS2 against the controller, and the mock
IoNext ==
    \/ GetIo
    \/ SetDigitalIo
    \/ MockGetDigitalIo
    \/ MockSetDigitalIo

IoSpec == Init /\ [][IoNext]_vars

\* Files: RWS2 against the controller's file service, and the mock
FileNext ==
    \/ ReadFile
    \/ UploadFile
    \/ DeleteFile
    \/ MockReadFile
    \/ MockUploadFile
    \/ MockDeleteFile

FileSpec == Init /\ [][FileNext]_vars

\* The panel: RWS2 against the controller, and the mock
PanelNext ==
    \/ SetSpeedratio
    \/ GetSpeedratio
    \/ SetControllerState
    \/ SetMotorsOn
    \/ SetMotorsOff
    \/ GetControllerState
    \/ MockSetSpeedratio
    \/ MockGetSpeedratio
    \/ MockSetControllerState
    \/ MockSetMotorsOn
    \/ MockSetMotorsOff
    \/ MockGetControllerState

PanelSpec == Init /\ [][PanelNext]_vars

\* The mock's signals and RAPID variables
MockNext ==
    \/ MockGetDigitalIo
    \/ MockSetDigitalIo
    \/ MockGetRapidVariable
    \/ MockSetRapidVariable
    \/ MockSetRapidVariableNum

MockSpec == Init /\ [][MockNext]_vars

\* The mock's execution control, panel and tasks
MockCtlNext ==
    \/ MockStart
    \/ MockStop
    \/ MockGetExecutionState
    \/ MockSetControllerState
    \/ MockSetMotorsOn
    \/ MockSetMotorsOff
    \/ MockSetSpeedratio
    \/ MockActivateTask
    \/ MockDeactivateTask
    \/ MockSetDigitalIo
    \/ MockSetRapidVariable
    \/ MockUploadFile
    \/ MockDeleteFile

MockCtlSpec == Init /\ [][MockCtlNext]_vars

\* Threads sharing one client
ThreadNext ==
    \E t \in Threads :
        \/ ThreadCall(t)
        \/ ThreadSend(t)
        \/ ThreadReceive(t)

ThreadSpec == Init /\ [][ThreadNext]_vars

\* Marshalling: request construction and the parsing of collection responses
MarshalNext ==
    \/ NewSubscriptionRequest
    \/ ReadEventLog
    \/ GetTasks
    \/ HasAttr

\* one call of a constructor or of a parsing read, with its inputs
MarshalInit ==
    /\ holder = "none"
    /\ rapid = [p \in RapidPaths |-> "0"]
    /\ active = [t \in Tasks |-> TRUE]
    /\ ctrlexecstate = "stopped"
    /\ signals = [s \in SignalNames |-> IF s = "Auto" THEN "1" ELSE "0"]
    /\ pc = "called"
    /\ call \in SubscriptionCalls \cup EventLogCalls \cup GetTasksCalls \cup HasAttrCalls
    /\ result = NoResult
    /\ last = NoExchange
    /\ sent = <<>>
    /\ plan = <<>>
    /\ InitMock
    /\ InitPanel

MarshalSpec == MarshalInit /\ [][MarshalNext]_vars

(***************************************************************************)
(* Claims                                                                  *)
(***************************************************************************)
WriteOps == {"set_rapid_variable", "set_rapid_variable_num"}
WriteDone == pc = "idle" /\ call.op \in WriteOps

\* C1: a RAPID-variable write sequence that begins with mastership Released
\* ends, whether it returns or raises, with mastership Released.
C1_ReleasedAfterWrite ==
    (WriteDone /\ call.held0 # "self") => holder # "self"

\* C2: in set_rapid_variable the write POST is sent only while this client's
\* mastership request has been granted (Held), never after a denied or failed
\* request.
C2_WriteOnlyWhileHeld ==
    \A i \in 1 .. Len(sent) :
        (call.op \in WriteOps /\ sent[i].req = "rapid/write") => sent[i].held = "self"

\* C4: a mastership request the controller denies (403, held elsewhere) makes
\* request_mastership raise MastershipDeniedError; it never returns normally.
C4_DenialRaises ==
    (last.req = "mastership/request" /\ last.t = "resp" /\ last.status = 403)
        => last.res = Raise("MastershipDeniedError")

\* C5: a release step answered with a non-2xx status is reported to the
\* caller: release_mastership raises, and so does the write it ends.
C5_ReleaseFailureReported ==
    (last.req = "mastership/release" /\ last.t = "resp" /\ last.status >= 300)
        => /\ last.res.kind = "raise"
           /\ pc = "idle" => result.kind = "raise"

\* C6: through _do_post a non-2xx answer never returns normally: 403 raises
\* the mastership-required error, any other non-2xx a transport error.
C6_PostNon2xxClassified ==
    (last.via = "_do_post" /\ last.t = "resp" /\ ~(last.status \in 200 .. 299))
        => IF last.status = 403
           THEN last.res = Raise("ABBException403")
           ELSE last.res.kind = "raise" /\ last.res.exc = "TransportError"

\* C7: when the transport raises before any response exists, _do_get and
\* _do_post raise a connectivity error.
C7_ConnectivityError ==
    (last.via \in {"_do_get", "_do_post"} /\ last.t # "resp")
        => /\ last.res.kind = "raise"
           /\ last.res.exc \in {"ConnectivityError", "ConnectionError"}

\* C8: request() that returns leaves mastership Held, also when it was Held
\* already, where it does not fail; release() that returns leaves it Released.
C8_TwoStateMachine ==
    /\ (pc = "idle" /\ call.op = "request_mastership" /\ result.kind = "return")
           => holder = "self"
    /\ (pc = "idle" /\ call.op = "request_mastership" /\ call.held0 = "self"
           /\ last.t = "resp") => result.kind = "return"
    /\ (pc = "idle" /\ call.op = "release_mastership" /\ result.kind = "return")
           => holder # "self"

\* C3: when start(tasks=S) has returned for a set S of known tasks, every
\* motion task in S is active and no motion task outside S is.
C3_StartActivatesExactly ==
    (pc = "idle" /\ call.op = "start" /\ result.kind = "return" /\ call.tasks \subseteq Tasks)
        => \A x \in MotionTasks : active[x] <=> x \in call.tasks

\* what get_rapid_variable(var, task) returns in this controller state when
\* its GET is answered
ReadBack(var, task) == rapid_value(_do_get("resp", OK200, rapid[read_path(var, task)]))

\* C9: after set_rapid_variable(var, v, task) or set_rapid_variable_num has
\* returned, get_rapid_variable(var, task) returns str(v).
C9_RapidRoundTrip ==
    (WriteDone /\ result.kind = "return")
        => ReadBack(call.var, call.task) = Ret(PyStr(py_str(call.value)))

\* what get_io / get_digital_io (signal, network, unit) returns in this
\* controller state when the controller's answer arrives
IoRead(op, signal, network, unit) ==
    LET path == io_path(signal, network, unit)
        r == IF ResolveSignal(path) = {} THEN NotFound404 ELSE OK200
    IN  io_result(op, _do_get("resp", r, SignalBody(path)))

FullyQualified(c) ==
    c.network = SignalAddr[c.signal].network /\ c.unit = SignalAddr[c.signal].unit
BareName(c) == c.network = "" /\ c.unit = ""
IoReadDone == pc = "idle" /\ call.op \in IoReadOps /\ last.status = 200

\* C10: get_io / get_digital_io of a signal addressed by network, unit and
\* name returns the value that addressing the same signal by its bare name
\* returns in the same controller state, and the other way round; on the
\* mock get_digital_io returns the same value under every addressing.
C10_QualifiedEqualsBare ==
    /\ (IoReadDone /\ FullyQualified(call))
           => /\ result.kind = "return"
              /\ result = IoRead(call.op, call.signal, "", "")
    /\ (IoReadDone /\ BareName(call))
           => /\ result.kind = "return"
              /\ result = IoRead(call.op, call.signal, SignalAddr[call.signal].network,
                                 SignalAddr[call.signal].unit)
    /\ m_ret.op = "get_digital_io"
           => \A a \in MockAddressings :
                  m_ret.res = Ret(PyInt(mock_get_digital_io(m_dio, m_ret.signal,
                                                            a.network, a.unit)))

\* C10 witness: after a write made it 1, motion_program_error has been read
\* fully qualified through RWS2 and on the mock.
C10_Witness ==
    /\ pc = "idle" /\ call.op = "get_digital_io" /\ call.signal = "motion_program_error"
    /\ FullyQualified(call) /\ result = Ret(PyInt(1))
    /\ m_ret.op = "get_digital_io" /\ m_ret.signal = "motion_program_error"
    /\ m_ret.network = "Local" /\ m_ret.res = Ret(PyInt(1))

\* C11: a subscription request with High priority for a resource type other
\* than PersVar or Signal is rejected with a validation error when it is
\* constructed, before any network call.
C11_HighPriorityRejected ==
    (/\ pc = "idle" /\ call.op = "SubscriptionResourceRequest"
     /\ call.priority = SubscriptionResourcePriority.High
     /\ call.resource_type \notin {SubscriptionResourceType.PersVar,
                                   SubscriptionResourceType.Signal})
        => /\ result = Raise("ValidationError")
           /\ sent = <<>>

\* an event-log entry whose declared argument count is not the number of
\* its argument values
ArgcMismatch(log_entry) ==
    log_entry.argc # (IF log_entry.hasargv THEN Len(log_entry.argv) ELSE 0)

\* C12: read_event_log of a response with an entry whose argc differs from
\* the number of its argv values fails with MalformedResponseError; no
\* EventLogEntry is returned for that entry.
C12_ArgcMismatchFails ==
    (/\ pc = "idle" /\ call.op = "read_event_log"
     /\ last.t = "resp" /\ last.status = 200
     /\ \A i \in 1 .. Len(call.body) : call.body[i].tstamp_ok
     /\ \E i \in 1 .. Len(call.body) : ArgcMismatch(call.body[i]))
        => result = Raise("MalformedResponseError")

GetTasksDone ==
    pc = "idle" /\ call.op = "get_tasks" /\ last.t = "resp" /\ last.status = 200

WellFormed(body) ==
    {body[i] : i \in {j \in 1 .. Len(body) : body[j].hasname /\ body[j].valid}}

FileRead(op, filename, directory, r) ==
    read_file_any_status(op,
        _do_get_raw("resp", r, FileBody(file_path(filename, directory), r)))

NotFoundSignals == {"FileNotFoundError", "UnknownResourceError", "NotFoundError"}

\* C14: read_file / read_file_str of a file that does not exist yields a
\* distinct not-found signal: it does not return (an error document or a
\* message as if it were the contents) and raises no generic error.
C14_NotFoundIsDistinct ==
    /\ (/\ pc = "idle" /\ call.op \in FileReadOps /\ ~call.existed
        /\ last.t = "resp")
           => (result.kind = "raise" /\ result.exc \in NotFoundSignals)
    /\ (m_ret.op \in FileReadOps /\ ~m_ret.existed)
           => (m_ret.res.kind = "raise" /\ m_ret.res.exc \in NotFoundSignals)

\* C15: after upload_file(name, content, dir) has returned, read_file(name,
\* dir) returns the uploaded content; after delete_file(name, dir) has
\* returned, read_file(name, dir) does not return the file: it fails.
C15_FileRoundTrip ==
    /\ (pc = "idle" /\ call.op = "upload_file" /\ result.kind = "return")
           => \A r \in FileReadReplies(file_path(call.filename, call.directory)) :
                  r.status = 200 =>
                      FileRead("read_file", call.filename, call.directory, r)
                          = Ret(PyBytes(call.contents))
    /\ (pc = "idle" /\ call.op = "delete_file" /\ result.kind = "return")
           => \A r \in FileReadReplies(file_path(call.filename, call.directory)) :
                  FileRead("read_file", call.filename, call.directory, r).kind = "raise"
    /\ (m_ret.op = "upload_file")
           => mock_read_file(m_files, m_ret.filename, m_ret.directory)
                  = Ret(PyBytes(m_ret.contents.s))
    /\ (m_ret.op = "delete_file")
           => mock_read_file(m_files, m_ret.filename, m_ret.directory).kind = "raise"

MockReadOps == {"get_digital_io", "get_rapid_variable"}

\* C16: a read of a RAPID variable or of a signal that does not exist raises
\* an error (UnknownResourceError); it does not return a default such as '0'
\* or 0.
C16_NoDefaultForMissing ==
    (m_ret.op \in MockReadOps /\ ~m_ret.existed)
        => /\ m_ret.res.kind = "raise"
           /\ m_ret.res.exc = "UnknownResourceError"

\* what get_speedratio() returns in this controller state when its GET is
\* answered
SpeedRead == speedratio_result(_do_get("resp", OK200, speedratio))

Accepted(v) == 0 <= v.n /\ v.n <= MaxSpeedRatio

\* C17: after set_speedratio(v) has returned for a v in 0..100,
\* get_speedratio() returns v.
C17_SpeedRoundTrip ==
    /\ (pc = "idle" /\ call.op = "set_speedratio" /\ result.kind = "return"
           /\ Accepted(call.value))
           => (SpeedRead.kind = "return" /\ SpeedRead.value.n = call.value.n)
    /\ (m_ret.op = "set_speedratio" /\ m_ret.res.kind = "return" /\ Accepted(m_ret.value))
           => mock_get_speedratio(m_speedratio).n = m_ret.value.n

\* C18: in every state, whatever set_speedratio was called with before,
\* get_speedratio() returns a value between 0 and 100: a call that has
\* returned did, and a call made now does.
C18_SpeedRatioInRange ==
    /\ (pc = "idle" /\ call.op = "get_speedratio" /\ result.kind = "return")
           => result.value.n \in 0 .. MaxSpeedRatio
    /\ SpeedRead.value.n \in 0 .. MaxSpeedRatio
    /\ m_ret.op = "get_speedratio" => m_ret.res.value.n \in 0 .. MaxSpeedRatio
    /\ mock_get_speedratio(m_speedratio).n \in 0 .. MaxSpeedRatio

\* C18 witness: set_speedratio was called with 101 on the controller and on
\* the mock, after the speed ratio had been changed on both.
C18_Witness ==
    /\ pc = "idle" /\ call.op = "set_speedratio" /\ call.value = PyInt(MaxSpeedRatio + 1)
    /\ last.t = "resp" /\ speedratio = TestSpeedRatio
    /\ m_ret.op = "set_speedratio" /\ m_ret.value = PyInt(MaxSpeedRatio + 1)
    /\ m_speedratio = TestSpeedRatio

\* what get_controller_state() returns in this controller state when its GET
\* is answered
CtrlRead == ctrlstate_result(_do_get("resp", OK200, ctrlstate))

CtrlSetOps == {"set_controller_state", "set_motors_on", "set_motors_off"}

\* C19: after set_controller_state(s), set_motors_on or set_motors_off has
\* returned for s in {motoron, motoroff}, get_controller_state() returns s;
\* and get_controller_state() returns a documented controller state.
C19_CtrlStateRoundTrip ==
    /\ (pc = "idle" /\ call.op \in CtrlSetOps /\ result.kind = "return"
           /\ call.ctrl_state \in SettableStates)
           => CtrlRead = Ret(PyStr(call.ctrl_state))
    /\ (m_ret.op \in CtrlSetOps /\ m_ret.res.kind = "return")
           => m_controller_state = m_ret.ctrl_state
    /\ CtrlRead.value.s \in ControllerStates
    /\ m_controller_state \in ControllerStates

\* int(v) of a value given for a digital signal
IntOf(v) == IF v.ty = "str" THEN py_int(v.s).value.n ELSE v.n

\* C20: after set_digital_io(signal, v) with default addressing has been
\* carried out, for v given as 0, 1, False, True, '0' or '1',
\* get_digital_io(signal) with default addressing returns int(v).
C20_DigitalIoRoundTrip ==
    /\ (/\ pc = "idle" /\ call.op = "set_digital_io" /\ result.kind = "return"
        /\ call.network = "Local" /\ call.unit = "DRV_1"
        /\ last.t = "resp" /\ last.status < 300)
           => IoRead("get_digital_io", call.signal, "", "") = Ret(PyInt(IntOf(call.value)))
    /\ m_ret.op = "set_digital_io"
           => mock_get_digital_io(m_dio, m_ret.signal, "", "") = IntOf(m_ret.value)

\* C21: on the mock, whatever sequence of start, stop, set_controller_state,
\* set_motors_on and set_motors_off has run, the execution state is "running"
\* only while the controller state is "motoron".
C21_RunningOnlyWhenMotorOn ==
    m_exec_state = "running" => m_controller_state = "motoron"

\* C22: every operation of the shared list is provided by RWS2 and by RWSMock,
\* and RWS2 provides mastership request and release: each lookup succeeds.
C22_SharedInterface ==
    (pc = "idle" /\ call.op = "hasattr") => result.kind = "return"

\* the single-shot mutations
SingleShotOps ==
    {"start", "stop", "resetpp", "activate_task", "deactivate_task",
     "set_controller_state", "set_motors_on", "set_motors_off", "set_digital_io",
     "set_speedratio"}

\* C23: every POST of a single-shot mutation carries the implicit-mastership
\* flag (the one request of these calls that is not a POST is the task listing
\* of start), whereas the write of a RAPID variable comes right after an
\* explicit mastership request and does not carry the implicit flag.
C23_ImplicitOnlyForSingleShot ==
    \A i \in 1 .. Len(sent) :
        /\ (call.op \in SingleShotOps /\ sent[i].req # "rapid/tasks") => sent[i].implicit
        /\ (call.op \in WriteOps /\ sent[i].req = "rapid/write") =>
               /\ i = 2
               /\ sent[1].req = "mastership/request"
               /\ ~sent[i].implicit

\* C25: for _do_get and for _do_post alike, a 2xx answer with an empty body
\* gives the no-data result (None): nothing is raised and no error is reported.
C25_EmptyBodyIsNoData ==
    (last.via \in {"_do_get", "_do_post"} /\ last.t = "resp"
        /\ last.status >= 200 /\ last.status < 300 /\ last.content = "empty") =>
    (last.res = Ret(PyNone) /\ ~last.printed)

\* C24: when several threads use one RWS2 client, no two requests are in
\* flight on its session at the same time.
C24_OneRequestInFlight == Cardinality(InFlight) <= 1

\* C26: while another client (A) holds mastership, a RAPID-variable write by
\* this client (B), whose mastership request was made while A held and so was
\* not granted, never changes the variable, never sends a release of the
\* mastership B did not get, and never makes A lose mastership.
C26_DeniedWriterLeavesNoTrace ==
    [][/\ (pc = "idle" /\ pc' = "srv_post" /\ holder = "other") =>
              (rapid' = rapid /\ holder' = "other")
       /\ (pc \in {"srv_post", "srv_release"} /\ pc' # pc /\ call.op \in WriteOps
              /\ sent[1].held = "other" /\ holder = "other") =>
              /\ rapid' = rapid
              /\ holder' = "other"
              /\ sent'[Len(sent')].req # "mastership/release"]_vars

\* the requests of the task loop of the start() in progress or last completed
StartLoopPosts == start_posts(call.rob_tasks, call.tasks)
TaskPosts == {"rapid/tasks/activate", "rapid/tasks/deactivate"}
ExecStartSent == \E i \in 1 .. Len(sent) : sent[i].req = "rapid/execution/start"

\* C27: in start(), the execution-start POST is sent only after every
\* activation and deactivation the task listing calls for has been issued, in
\* order, without raising; when one of them raises, the execution-start POST is
\* not sent.
C27_ExecStartAfterTaskPosts ==
    call.op = "start" =>
        /\ \A i \in 1 .. Len(sent) :
               sent[i].req = "rapid/execution/start" =>
                   /\ i = Len(StartLoopPosts) + 2
                   /\ i = Len(sent)
                   /\ \A j \in 1 .. Len(StartLoopPosts) :
                          sent[j + 1].req = "rapid/tasks/" \o StartLoopPosts[j].do
        /\ (pc = "idle" /\ result.kind = "raise" /\ last.req \in TaskPosts) =>
               ~ExecStartSent

\* start() has sent the execution-start POST after two requests of its loop
C27_Witness ==
    /\ call.op = "start"
    /\ pc = "idle"
    /\ ExecStartSent
    /\ Len(StartLoopPosts) = 2

\* the names start() was given that its task listing did not return
UnlistedTasks ==
    {x \in call.tasks : \A i \in 1 .. Len(call.rob_tasks) : call.rob_tasks[i].name # x}

\* C28: start() with a task name that get_tasks did not return raises before it
\* sends any mutating request: only the listing was sent, and the controller's
\* task activation and execution state are as they were.
C28_UnknownTaskRaisesFirst ==
    (call.op = "start" /\ UnlistedTasks # {}) =>
        /\ pc = "idle"
        /\ result = Raise("Exception")
        /\ Len(sent) = 1
        /\ sent[1].req = "rapid/tasks"
        /\ active = call.active0
        /\ ctrlexecstate = call.exec0

\* start() was given an unknown name next to a known one, the listing
\* succeeded, and a motion task outside the list was active
C28_Witness ==
    /\ call.op = "start"
    /\ UnknownTask \in call.tasks
    /\ Len(call.rob_tasks) > 0
    /\ start_posts(call.rob_tasks, call.tasks) # <<>>
    /\ result = Raise("Exception")

\* the operations of the mock that reject their input or the state they find
RejectingOps == {"set_speedratio", "set_controller_state", "start"}

\* C29: a call on the mock that is rejected (set_speedratio outside 0..100,
\* set_controller_state with a state other than motoron / motoroff, start while
\* the controller is not in motoron) raises and leaves the speed ratio, the
\* controller state, the execution state, the tasks, the signals, the RAPID
\* variables and the files exactly as they were.
C29_RejectedLeavesMockUnchanged ==
    [][(m_ret'.op \in RejectingOps /\ m_ret'.res.kind = "raise") =>
           UNCHANGED <<m_speedratio, m_controller_state, m_exec_state, m_tasks,
                       m_dio, m_rapid, m_files>>]_vars

\* a start was rejected on a mock whose state is no longer the initial one
C29_Witness ==
    /\ m_ret.op = "start"
    /\ m_ret.res.kind = "raise"
    /\ m_exec_state = "stopped"
    /\ m_speedratio # MaxSpeedRatio
    /\ ~m_tasks["T_ROB1"]

====
